---------------------------- MODULE Spec2Model ----------------------------
(***************************************************************************)
(* RentRescue, src/lib/contractAnalyzer.ts: analyzeContract and the        *)
(* Gemini client callGeminiAPI behind it.                                  *)
(*                                                                         *)
(* One invocation of analyzeContract is a chain of steps (truncate, key    *)
(* check, one fetch per endpoint, conversion).  Every await is a point     *)
(* where another invocation may run, so the state of an invocation is kept *)
(* per call id and each step is one action.                                *)
(*                                                                         *)
(* JavaScript values are records tagged with their type, so that a field   *)
(* the remote service left out is the value undefined and not an absent    *)
(* case of the model.  Strings the code cuts or scans (the contract text,  *)
(* the response text) are sequences of characters or tokens.               *)
(***************************************************************************)
EXTENDS Integers, Sequences, FiniteSets, TLC

(***************************************************************************)
(* Bounds of the model.                                                    *)
(***************************************************************************)
\* Stands for maxLength = 50000 (contractAnalyzer.ts:180), scaled down so
\* that texts shorter than, equal to and longer than it can be enumerated.
maxLength == 2
\* The longest recommendations list the remote service returns.
MaxRecs == 8

(***************************************************************************)
(* JavaScript values.                                                      *)
(***************************************************************************)
Undefined == [type |-> "undefined"]
Null == [type |-> "null"]
Num(n) == [type |-> "number", val |-> n]
Str(s) == [type |-> "string", val |-> s]
Arr(s) == [type |-> "array", val |-> s]
Obj(f) == [type |-> "object", val |-> f]

\* An Error object: its class, its message (abbreviated) and, for the errors
\* of one loop iteration, the endpoint whose attempt made it.
Err(cls, msg, at) == [type |-> "error", cls |-> cls, msg |-> msg, at |-> at]

IsNullish(v) == v.type \in {"undefined", "null"}

Bool(b) == [type |-> "boolean", val |-> b]

\* A test against undefined and null alone, in place of !v.
FalsyNullishOnly(v) == IsNullish(v)

\* !v of JavaScript.
Falsy(v) ==
    \/ IsNullish(v)
    \/ v.type = "string" /\ Len(v.val) = 0
    \/ v.type = "number" /\ v.val = 0
    \/ v.type = "boolean" /\ ~v.val

(***************************************************************************)
(* callGeminiAPI: the endpoint list.                                       *)
(***************************************************************************)
endpoints ==
    << "v1beta/models/gemini-1.5-flash",
       "v1beta/models/gemini-1.5-pro",
       "v1/models/gemini-1.5-flash" >>

NumEndpoints == Len(endpoints)

(***************************************************************************)
(* analyzeContract: the truncation of the text.                            *)
(***************************************************************************)
Chars == {"a", "b"}

\* '\n\n[... contract truncated due to length ...]'
Marker ==
    << "\n", "\n", "[", ".", ".", ".", " ",
       "c", "o", "n", "t", "r", "a", "c", "t", " ",
       "t", "r", "u", "n", "c", "a", "t", "e", "d", " ",
       "d", "u", "e", " ", "t", "o", " ",
       "l", "e", "n", "g", "t", "h", " ", ".", ".", ".", "]" >>

\* String.prototype.substring(0, end) for 0 <= end.
Substring0(s, end) == SubSeq(s, 1, IF end < Len(s) THEN end ELSE Len(s))

\* The cut without the marker after it.
TruncateNoMarker(text) ==
    IF Len(text) > maxLength
    THEN Substring0(text, maxLength)
    ELSE text

\* The cut taken from maxLength characters on, not from more than maxLength.
TruncateAtThreshold(text) ==
    IF Len(text) >= maxLength
    THEN Substring0(text, maxLength) \o Marker
    ELSE text

\* The cut with the marker put before the kept characters.
TruncateMarkerFirst(text) ==
    IF Len(text) > maxLength
    THEN Marker \o Substring0(text, maxLength)
    ELSE text

\* Lines 181-183.
Truncate(text) ==
    IF Len(text) > maxLength
    THEN Substring0(text, maxLength) \o Marker
    ELSE text


(***************************************************************************)
(* Property access, indexing and truthiness of JavaScript, as far as the   *)
(* code uses them.  Reading a property of undefined or null throws a       *)
(* TypeError: callers test IsNullish first.                                *)
(***************************************************************************)
Get(o, f) ==
    IF o.type = "object" /\ f \in DOMAIN o.val THEN o.val[f] ELSE Undefined

\* a[i] for a zero-based index i.
At(a, i) ==
    IF a.type = "array" /\ i + 1 \in DOMAIN a.val THEN a.val[i + 1] ELSE Undefined

(***************************************************************************)
(* The text of a response, as a sequence of tokens: single characters, one *)
(* token for the member list of the analysis object (its own braces and    *)
(* brackets lie between the object's outer braces and are not spelled out) *)
(* and one token for a JSON literal that is no object.                     *)
(***************************************************************************)
Ch(c) == [ch |-> c]
Members(f) == [members |-> f]
Lit(v) == [lit |-> v]

IsMembers(t) == DOMAIN t = {"members"}
IsLit(t) == DOMAIN t = {"lit"}

LBrace == Ch("{")
RBrace == Ch("}")
Space == Ch(" ")
Newline == Ch("\n")
Prose == Ch("p")
Fence == Ch("#")

IsSpace(t) == t = Space \/ t = Newline

RECURSIVE TrimStart(_)
TrimStart(s) ==
    IF s # << >> /\ IsSpace(Head(s)) THEN TrimStart(Tail(s)) ELSE s

RECURSIVE TrimEnd(_)
TrimEnd(s) ==
    IF s # << >> /\ IsSpace(s[Len(s)])
    THEN TrimEnd(SubSeq(s, 1, Len(s) - 1))
    ELSE s

\* String.prototype.trim
Trim(s) == TrimEnd(TrimStart(s))

\* The match with a lazy star: up to the first "}" after the leftmost "{".
MatchLazy(s) ==
    LET opens == {i \in 1..Len(s) : s[i] = LBrace}
        closes == {j \in 1..Len(s) : s[j] = RBrace}
        starts == {i \in opens : \E j \in closes : j > i}
    IN  IF starts = {}
        THEN << >>
        ELSE LET i == CHOOSE a \in starts : \A b \in starts : a <= b
                 after == {j \in closes : j > i}
                 j == CHOOSE a \in after : \A b \in after : a <= b
             IN  SubSeq(s, i, j)

\* responseText.match of line 157, an opening brace, any characters, a closing
\* brace: the leftmost "{" that has a "}" after it, up to the last "}" of the
\* text (the star is greedy).  << >> stands for null, which no match can be,
\* a match holding two characters at least.
Match(s) ==
    LET opens == {i \in 1..Len(s) : s[i] = LBrace}
        closes == {j \in 1..Len(s) : s[j] = RBrace}
        starts == {i \in opens : \E j \in closes : j > i}
    IN  IF starts = {}
        THEN << >>
        ELSE LET i == CHOOSE a \in starts : \A b \in starts : a <= b
                 j == CHOOSE a \in closes : \A b \in closes : b <= a
             IN  SubSeq(s, i, j)

\* jsonText of lines 156-160.
JsonText(responseText) ==
    LET jsonMatch == Match(responseText)
    IN  IF jsonMatch # << >> THEN jsonMatch ELSE responseText

\* JSON.parse: insignificant whitespace is skipped; the text must be exactly
\* one value.  [ok |-> FALSE] is the SyntaxError.
JSONParse(s) ==
    LET NotSpace(x) == ~IsSpace(x)
        t == SelectSeq(s, NotSpace)
    IN  IF Len(t) = 1 /\ IsLit(t[1])
        THEN [ok |-> TRUE, value |-> t[1].lit]
        ELSE IF Len(t) = 2 /\ t[1] = LBrace /\ t[2] = RBrace
        THEN [ok |-> TRUE, value |-> Obj(<< >>)]
        ELSE IF Len(t) = 3 /\ t[1] = LBrace /\ IsMembers(t[2]) /\ t[3] = RBrace
        THEN [ok |-> TRUE, value |-> Obj(t[2].members)]
        ELSE [ok |-> FALSE]

(***************************************************************************)
(* One loop iteration of callGeminiAPI, lines 119-171, for the response    *)
(* resp that fetch gave to the request sent to endpoint number at.  The    *)
(* result is either the return of line 163 or the error that the iteration *)
(* leaves in lastError before it continues.                                *)
(*                                                                         *)
(* A response is [kind |-> "rejected", reason |-> v], fetch's promise      *)
(* rejecting with v, or [kind |-> "http", ok |-> b, json |-> d], where d   *)
(* is [ok |-> FALSE] when the body is no JSON and else [ok |-> TRUE,       *)
(* value |-> the parsed body].                                             *)
(***************************************************************************)
Return(value, responseText) ==
    [kind |-> "return", value |-> value, responseText |-> responseText]

Continue(error) == [kind |-> "continue", error |-> error]

\* A continue from the catch block after line 153 has set responseText.
ContinueAfterText(error, responseText) ==
    [kind |-> "continue", error |-> error, responseText |-> responseText]

\* The catch block, lines 164-171: what it stores in lastError.
Catch(error, at) ==
    IF error.type = "error"
    THEN error
    ELSE Err("Error", "String(error)", at)

\* Lines 153-163, for data.candidates[0].content.
ParseContent(content, at) ==
    LET parts == Get(content, "parts")
        part == At(parts, 0)
        text == Get(part, "text")
    IN  IF IsNullish(parts) \/ IsNullish(part) \/ text.type # "string"
        THEN Continue(Catch(Err("TypeError", "Cannot read properties", at), at))
        ELSE LET responseText == Trim(text.val)
                 parsed == JSONParse(JsonText(responseText))
             IN  IF parsed.ok
                 THEN Return(parsed.value, responseText)
                 ELSE ContinueAfterText(
                          Catch(Err("SyntaxError", "JSON.parse", at), at), responseText)

\* Lines 146-151.
ReadData(data, at) ==
    IF IsNullish(data)
    THEN Continue(Catch(Err("TypeError", "Cannot read properties", at), at))
    ELSE LET candidates == Get(data, "candidates")
             candidate == At(candidates, 0)
             content == Get(candidate, "content")
         IN  IF Falsy(candidates) \/ Falsy(candidate) \/ Falsy(content)
             THEN Continue(Err("Error", "Invalid response format from Gemini API", at))
             ELSE ParseContent(content, at)

Iteration(resp, at) ==
    IF resp.kind = "rejected"
    THEN Continue(Catch(resp.reason, at))
    ELSE IF ~resp.ok
    THEN Continue(Err("Error", "Gemini API error", at))
    ELSE IF ~resp.json.ok
    THEN Continue(Catch(Err("SyntaxError", "response.json", at), at))
    ELSE ReadData(resp.json.value, at)

(***************************************************************************)
(* analyzeContract, lines 187-204: the conversion of what callGeminiAPI    *)
(* returned into an AnalysisResult.                                        *)
(***************************************************************************)
Returned(value) == [status |-> "returned", value |-> value]
Threw(error) == [status |-> "threw", error |-> error]
Pending == [status |-> "pending"]

\* Array.prototype.slice(start, end) for 0 <= start <= end.
Slice(s, start, end) ==
    SubSeq(s, start + 1, IF end < Len(s) THEN end ELSE Len(s))

\* The list passed on whole.
RecommendationsUncapped(recs) == recs

\* Line 203.
Recommendations(recs) == Slice(recs, 0, 5)

\* Reading fc.clause.category throws when fc or fc.clause is undefined or null.
ClauseThrows(fc) == IsNullish(fc) \/ IsNullish(Get(fc, "clause"))

\* The spread written after keywords, so that the raw clause's own members
\* win over it.
ConvertClauseSpreadLast(fc) ==
    LET clause == Get(fc, "clause")
    IN  Obj([ clause |->
                  Obj(  ("category" :> Get(clause, "category"))
                     @@ clause.val
                     @@ ("keywords" :> Arr(<< >>)) ),
              matchedText |-> Get(fc, "matchedText"),
              position |-> Get(fc, "position") ])

\* The callback of map, lines 188-196, for an entry on which it does not
\* throw: the spread of fc.clause, then keywords and category on top of it.
ConvertClause(fc) ==
    LET clause == Get(fc, "clause")
    IN  Obj([ clause |->
                  Obj(  ("category" :> Get(clause, "category"))
                     @@ ("keywords" :> Arr(<< >>))
                     @@ clause.val ),
              matchedText |-> Get(fc, "matchedText"),
              position |-> Get(fc, "position") ])

\* The conversion with an empty list in place of a missing one.
ConvertDefaulting(geminiResponse) ==
    LET raw == Get(geminiResponse, "flaggedClauses")
        recs == Get(geminiResponse, "recommendations")
        flagged == IF raw.type = "array" THEN raw.val ELSE << >>
    IN  IF \E i \in DOMAIN flagged : ClauseThrows(flagged[i])
        THEN Threw(Err("TypeError", "Cannot read properties", 0))
        ELSE Returned(Obj(
                 [ summary |-> Get(geminiResponse, "summary"),
                   keyDetails |-> Get(geminiResponse, "keyDetails"),
                   flaggedClauses |->
                       Arr([i \in DOMAIN flagged |-> ConvertClause(flagged[i])]),
                   overallRiskScore |-> Get(geminiResponse, "overallRiskScore"),
                   recommendations |->
                       Arr(IF recs.type = "array"
                           THEN Recommendations(recs.val)
                           ELSE << >>) ]))

Convert(geminiResponse) ==
    LET raw == Get(geminiResponse, "flaggedClauses")
        recs == Get(geminiResponse, "recommendations")
    IN  IF IsNullish(geminiResponse)
        THEN Threw(Err("TypeError", "Cannot read properties", 0))
        ELSE IF raw.type # "array"
        THEN Threw(Err("TypeError", "flaggedClauses.map", 0))
        ELSE IF \E i \in DOMAIN raw.val : ClauseThrows(raw.val[i])
        THEN Threw(Err("TypeError", "Cannot read properties", 0))
        ELSE IF recs.type # "array"
        THEN Threw(Err("TypeError", "recommendations.slice", 0))
        ELSE Returned(Obj(
                 [ summary |-> Get(geminiResponse, "summary"),
                   keyDetails |-> Get(geminiResponse, "keyDetails"),
                   flaggedClauses |->
                       Arr([i \in DOMAIN raw.val |-> ConvertClause(raw.val[i])]),
                   overallRiskScore |-> Get(geminiResponse, "overallRiskScore"),
                   recommendations |-> Arr(Recommendations(recs.val)) ]))

(***************************************************************************)
(* The inputs: contract texts, and what the remote service may answer.     *)
(***************************************************************************)
\* Every text up to one character past maxLength, and the texts that are
\* already the truncation of a longer one.
Texts ==
    LET short == UNION {[1..n -> Chars] : n \in 0..(maxLength + 1)}
    IN  short \cup {Truncate(t) : t \in short}

Recs(n) == [i \in 1..n |-> Str(ToString(i))]

RecLists ==
    {Arr(Recs(n)) : n \in 0..MaxRecs}
        \cup {Arr([i \in 1..MaxRecs |-> Str(ToString(MaxRecs + 1 - i))])}

Scores == {Num(-10), Num(0), Num(55), Num(100), Num(150)}

Categories ==
    { "security_deposit", "rent", "termination", "maintenance", "privacy",
      "pets", "subletting", "utilities", "other" }

Severities == {"low", "medium", "high"}

RawClause(category, severity) ==
    [ id |-> Str("clause-1"),
      category |-> Str(category),
      name |-> Str("Clause name"),
      description |-> Str("Brief description"),
      isMalicious |-> Bool(TRUE),
      severity |-> Str(severity),
      legalReference |-> Str("RTA s. 19"),
      explanation |-> Str("Why") ]

\* The clause objects of a response: in and out of the enumerations, with
\* and without a keywords member of their own.
RawClauses ==
    LET plain == { RawClause(c, v) :
                     c \in {"rent", "other", "bogus_category"},
                     v \in {"low", "high", "critical"} }
    IN  {Obj(f) : f \in plain}
            \cup {Obj(("keywords" :> Arr(<<Str("deposit")>>)) @@ f) : f \in plain}

\* "max 300 chars", line 90.
MaxMatchedText == 300

\* An excerpt of n characters.
Excerpt(n) == [i \in 1..n |-> "x"]

RawFlaggedWith(clause, matchedText) ==
    Obj([clause |-> clause, matchedText |-> Str(matchedText), position |-> Num(0)])

RawFlagged(clause) == RawFlaggedWith(clause, Excerpt(7))

FlaggedLists ==
    {Arr(<< >>), Undefined, Arr(<<Obj([matchedText |-> Str(Excerpt(7))])>>)}
        \cup { Arr(<<RawFlaggedWith(Obj(RawClause("rent", "high")), Excerpt(n))>>) :
                 n \in {0, MaxMatchedText, MaxMatchedText + 1} }
        \cup {Arr(<<RawFlagged(c)>>) : c \in RawClauses}
        \cup { Arr(<< RawFlagged(Obj(RawClause("pets", "medium"))), RawFlagged(c) >>) :
                 c \in {Obj(RawClause("bogus_category", "critical"))} }

RawKeyDetails ==
    Arr(<< Obj([ label |-> Str("Monthly Rent"), value |-> Str("N/A"),
                 category |-> Str("rent") ]) >>)

Raw(summary, keyDetails, flagged, score, recs) ==
    [ summary |-> summary,
      keyDetails |-> keyDetails,
      flaggedClauses |-> flagged,
      overallRiskScore |-> score,
      recommendations |-> recs ]

BaseFlagged == Arr(<<RawFlagged(Obj(RawClause("rent", "high")))>>)

\* The member lists of the objects the service answers with.
Raws ==
    { Raw(Str("A lease."), RawKeyDetails, BaseFlagged, score, recs) :
        score \in Scores \cup {Undefined}, recs \in RecLists \cup {Undefined} }
    \cup
    { Raw(summary, RawKeyDetails, flagged, Num(55), Arr(Recs(3))) :
        summary \in {Str("A lease."), Undefined}, flagged \in FlaggedLists }

BaseRaw == Raw(Str("A lease."), RawKeyDetails, BaseFlagged, Num(55), Arr(Recs(3)))

ObjectText(raw) == <<LBrace, Members(raw), RBrace>>

\* The texts of a first text part: the bare object, the object in prose, in
\* a code fence, in whitespace, followed or preceded by more braces, cut
\* off, a literal that is no object, prose alone and the empty text.
ResponseTexts ==
    {ObjectText(raw) : raw \in Raws}
    \cup
    { <<Prose, Newline>> \o ObjectText(BaseRaw) \o <<Newline>>,
      <<Fence, Newline>> \o ObjectText(BaseRaw) \o <<Newline, Fence>>,
      <<Space, Newline>> \o ObjectText(BaseRaw) \o <<Space>>,
      ObjectText(BaseRaw) \o <<Prose, LBrace, RBrace>>,
      <<LBrace, Prose, RBrace, Prose>> \o ObjectText(BaseRaw),
      <<Prose, RBrace>> \o ObjectText(BaseRaw),
      <<LBrace, Members(BaseRaw)>>,
      <<LBrace, RBrace>>,
      <<Lit(Null)>>,
      <<Lit(Num(42))>>,
      <<Prose>>,
      << >> }

Envelope(part) ==
    Obj([candidates |-> Arr(<<Obj([content |-> Obj([parts |-> Arr(<<part>>)])])>>)])

Http(ok, json) == [kind |-> "http", ok |-> ok, json |-> json]
Rejected(reason) == [kind |-> "rejected", reason |-> reason]
Json(value) == [ok |-> TRUE, value |-> value]
NotJson == [ok |-> FALSE]

\* What fetch may give to the request sent to endpoint number at.
Responses(at) ==
    { Rejected(Err("TypeError", "Failed to fetch", at)),
      Rejected(Str("timeout")),
      Http(FALSE, NotJson),
      Http(FALSE, Json(Obj([error |-> Str("quota")]))),
      Http(TRUE, NotJson),
      Http(TRUE, Json(Null)),
      Http(TRUE, Json(Obj([error |-> Str("quota")]))),
      Http(TRUE, Json(Obj([candidates |-> Arr(<< >>)]))),
      Http(TRUE, Json(Obj([candidates |-> Arr(<<Obj([finishReason |-> Str("SAFETY")])>>)]))),
      Http(TRUE, Json(Obj([candidates |-> Arr(<<Obj([content |-> Obj(<< >>)])>>)]))),
      Http(TRUE, Json(Envelope(Obj(<< >>)))) }
    \cup
    { Http(TRUE, Json(Envelope(Obj([text |-> Str(t)])))) : t \in ResponseTexts }

Keys == {Undefined, Str(""), Str("AIza")}

(***************************************************************************)
(* The state.  GEMINI_API_KEY is the module's constant of line 58; the     *)
(* other variables are the locals of one invocation, per call id.          *)
(***************************************************************************)
VARIABLES
    GEMINI_API_KEY, \* line 58
    pc,             \* where each invocation stands
    text,           \* analyzeContract's argument
    truncatedText,  \* analyzeContract's local, line 181
    contractText,   \* callGeminiAPI's argument
    idx,            \* the position of the for-of loop in endpoints, from 1
    lastError,      \* callGeminiAPI's local, line 116
    requests,       \* the requests fetch has sent for the invocation, in order
    responseText,   \* the local of line 153, of the latest iteration
    geminiResponse, \* analyzeContract's local, line 185
    outcome         \* how analyzeContract's promise settled

vars ==
    << GEMINI_API_KEY, pc, text, truncatedText, contractText, idx, lastError,
       requests, responseText, geminiResponse, outcome >>

Calls == {1, 2}

\* The invocations in progress are those of the set active; the others are
\* never made.
InitWith(active) ==
    /\ GEMINI_API_KEY \in Keys
    /\ pc = [c \in Calls |-> IF c \in active THEN "start" ELSE "idle"]
    /\ \E t \in [active -> Texts] :
           text = [c \in Calls |-> IF c \in active THEN t[c] ELSE << >>]
    /\ truncatedText = [c \in Calls |-> << >>]
    /\ contractText = [c \in Calls |-> << >>]
    /\ idx = [c \in Calls |-> 0]
    /\ lastError = [c \in Calls |-> Null]
    /\ requests = [c \in Calls |-> << >>]
    /\ responseText = [c \in Calls |-> << >>]
    /\ geminiResponse = [c \in Calls |-> Undefined]
    /\ outcome = [c \in Calls |-> Pending]

Init == InitWith({1})

\* Lines 178-185: the truncation, and the call of callGeminiAPI.
AnalyzeContract(c) ==
    /\ pc[c] = "start"
    /\ truncatedText' = [truncatedText EXCEPT ![c] = Truncate(text[c])]
    /\ contractText' = [contractText EXCEPT ![c] = Truncate(text[c])]
    /\ pc' = [pc EXCEPT ![c] = "callGeminiAPI"]
    /\ UNCHANGED << GEMINI_API_KEY, text, idx, lastError, requests, responseText,
                    geminiResponse, outcome >>

\* Lines 60-118: the key check, and the entry of the loop.  analyzeContract
\* has no handler: what callGeminiAPI throws rejects analyzeContract's promise.
CallGeminiAPI(c) ==
    /\ pc[c] = "callGeminiAPI"
    /\ IF Falsy(GEMINI_API_KEY)
       THEN /\ outcome' = [outcome EXCEPT
                   ![c] = Threw(Err("Error", "Gemini API key is not configured", 0))]
            /\ pc' = [pc EXCEPT ![c] = "done"]
            /\ UNCHANGED << idx, lastError >>
       ELSE /\ idx' = [idx EXCEPT ![c] = 1]
            /\ lastError' = [lastError EXCEPT ![c] = Null]
            /\ pc' = [pc EXCEPT ![c] = "loop"]
            /\ UNCHANGED outcome
    /\ UNCHANGED << GEMINI_API_KEY, text, truncatedText, contractText, requests,
                    responseText, geminiResponse >>

\* The list walked from its end.
RequestReversed(c) ==
    [ url |-> endpoints[NumEndpoints + 1 - idx[c]],
      key |-> GEMINI_API_KEY,
      contractText |-> contractText[c] ]

\* The request of lines 120-138.
Request(c) ==
    [ url |-> endpoints[idx[c]],
      key |-> GEMINI_API_KEY,
      contractText |-> contractText[c] ]

\* Line 118 with an endpoint left, and line 120: a new iteration begins, its
\* responseText not yet set, the request is sent and the invocation waits
\* for fetch.
Fetch(c) ==
    /\ pc[c] = "loop"
    /\ idx[c] <= NumEndpoints
    /\ requests' = [requests EXCEPT ![c] = Append(@, Request(c))]
    /\ responseText' = [responseText EXCEPT ![c] = << >>]
    /\ pc' = [pc EXCEPT ![c] = "fetch"]
    /\ UNCHANGED << GEMINI_API_KEY, text, truncatedText, contractText, idx,
                    lastError, geminiResponse, outcome >>

\* A break in place of continue: the loop is left at the first failure.
AdvanceBreak(i) == NumEndpoints + 1

\* The same endpoint asked again after a failure.
AdvanceRetry(i) == i

\* continue, lines 143, 150, 167 and 170: the loop goes on to the next endpoint.
Advance(i) == i + 1

\* The invocations that have been made.
Invoked == {c \in Calls : pc[c] # "idle"}

\* The answers while two invocations are in progress: one of each way an
\* attempt can end (rejected, refused, no candidates, text that does not
\* parse, the object bare and in prose, a literal that is no object).
SomeResponses(at) ==
    { Rejected(Err("TypeError", "Failed to fetch", at)),
      Http(FALSE, NotJson),
      Http(TRUE, Json(Obj([error |-> Str("quota")]))),
      Http(TRUE, Json(Envelope(Obj([text |-> Str(<<Prose>>)])))),
      Http(TRUE, Json(Envelope(Obj([text |-> Str(ObjectText(BaseRaw))])))),
      Http(TRUE, Json(Envelope(Obj(
          [text |-> Str(<<Prose, Newline>> \o ObjectText(BaseRaw) \o <<Newline>>)])))),
      Http(TRUE, Json(Envelope(Obj([text |-> Str(<<Lit(Null)>>)])))) }

\* What fetch gives to a request sent to endpoint number at.
Answers(at) ==
    IF Cardinality(Invoked) > 1 THEN SomeResponses(at) ELSE Responses(at)

\* The variable kept once for the module, not once for each invocation.
SetShared(f, c, v) == [d \in DOMAIN f |-> v]

\* An assignment to a local of invocation c: lastError (let, line 116), the
\* loop's position (line 118) and geminiResponse (const, line 185) are
\* declared inside the functions, one of each for every call.
SetLocal(f, c, v) == [f EXCEPT ![c] = v]

\* Lines 120-171: fetch settles and the iteration runs to its return or to
\* its continue.
Resolve(c) ==
    /\ pc[c] = "fetch"
    /\ \E resp \in Answers(idx[c]) :
           LET it == Iteration(resp, idx[c])
           IN  IF it.kind = "return"
               THEN /\ geminiResponse' = SetLocal(geminiResponse, c, it.value)
                    /\ responseText' = [responseText EXCEPT ![c] = it.responseText]
                    /\ pc' = [pc EXCEPT ![c] = "convert"]
                    /\ UNCHANGED << idx, lastError >>
               ELSE /\ lastError' = SetLocal(lastError, c, it.error)
                    /\ idx' = SetLocal(idx, c, Advance(idx[c]))
                    /\ responseText' =
                           IF "responseText" \in DOMAIN it
                           THEN [responseText EXCEPT ![c] = it.responseText]
                           ELSE responseText
                    /\ pc' = [pc EXCEPT ![c] = "loop"]
                    /\ UNCHANGED geminiResponse
    /\ UNCHANGED << GEMINI_API_KEY, text, truncatedText, contractText, requests,
                    outcome >>

\* The generic error thrown whatever was recorded.
ThrownGeneric(error) == Err("Error", "All Gemini API endpoints failed", 0)

\* Line 175, the loop being over.
Thrown(error) ==
    IF ~Falsy(error) THEN error ELSE Err("Error", "All Gemini API endpoints failed", 0)

\* The end of the loop missed by one: the throw of line 175 is never reached.
ExhaustedOffByOne(c) ==
    /\ pc[c] = "loop"
    /\ idx[c] > NumEndpoints + 1
    /\ outcome' = [outcome EXCEPT ![c] = Threw(Thrown(lastError[c]))]
    /\ pc' = [pc EXCEPT ![c] = "done"]
    /\ UNCHANGED << GEMINI_API_KEY, text, truncatedText, contractText, idx,
                    lastError, requests, responseText, geminiResponse >>

Exhausted(c) ==
    /\ pc[c] = "loop"
    /\ idx[c] > NumEndpoints
    /\ outcome' = [outcome EXCEPT ![c] = Threw(Thrown(lastError[c]))]
    /\ pc' = [pc EXCEPT ![c] = "done"]
    /\ UNCHANGED << GEMINI_API_KEY, text, truncatedText, contractText, idx,
                    lastError, requests, responseText, geminiResponse >>

\* Lines 187-204.
ConvertResult(c) ==
    /\ pc[c] = "convert"
    /\ outcome' = [outcome EXCEPT ![c] = Convert(geminiResponse[c])]
    /\ pc' = [pc EXCEPT ![c] = "done"]
    /\ UNCHANGED << GEMINI_API_KEY, text, truncatedText, contractText, idx,
                    lastError, requests, responseText, geminiResponse >>

Next ==
    \E c \in Calls :
        \/ AnalyzeContract(c)
        \/ CallGeminiAPI(c)
        \/ Fetch(c)
        \/ Resolve(c)
        \/ Exhausted(c)
        \/ ConvertResult(c)

Spec == Init /\ [][Next]_vars

\* The steps of one invocation.
Step(c) ==
    \/ AnalyzeContract(c)
    \/ CallGeminiAPI(c)
    \/ Fetch(c)
    \/ Resolve(c)
    \/ Exhausted(c)
    \/ ConvertResult(c)

\* The event loop runs every continuation that is ready, and every request
\* sent is taken to settle, with a response or with an error: an invocation
\* that can take a step takes one.
\* Whether an invocation ends does not depend on what its text says: the
\* behaviours are those of the empty text and of one text that is cut.
InitFair ==
    /\ InitWith({1})
    /\ text[1] \in {<< >>, [i \in 1..(maxLength + 1) |-> "a"]}

\* Two invocations in progress at once, on an empty text, on a text of
\* exactly maxLength characters and on one that is cut.
ConcTexts ==
    {<< >>, [i \in 1..maxLength |-> "a"], [i \in 1..(maxLength + 1) |-> "b"]}

InitConc ==
    /\ InitWith(Calls)
    /\ \A c \in Calls : text[c] \in ConcTexts

ConcSpec == InitConc /\ [][Next]_vars

FairSpec == InitFair /\ [][Next]_vars /\ \A c \in Calls : WF_vars(Step(c))

(***************************************************************************)
(* Properties.                                                             *)
(***************************************************************************)
Configured == ~IsNullish(GEMINI_API_KEY) /\ Len(GEMINI_API_KEY.val) > 0

\* callGeminiAPI has returned a value: JSON.parse never yields undefined.
ClientReturned(c) == geminiResponse[c] # Undefined

\* callGeminiAPI has thrown after entering its loop.
ClientThrew(c) ==
    /\ Configured
    /\ outcome[c].status = "threw"
    /\ ~ClientReturned(c)

Urls(c) == [k \in 1..Len(requests[c]) |-> requests[c][k].url]

\* C1: within one call of callGeminiAPI the requests go to the endpoints in
\* list order, and once a response has parsed the value returned is the parse
\* of that response's text and no request follows: the requests sent are
\* exactly those up to the endpoint that served the value.
C1_FirstSuccessWins ==
    \A c \in Calls :
        /\ Len(requests[c]) <= NumEndpoints
        /\ Urls(c) = SubSeq(endpoints, 1, Len(requests[c]))
        /\ ClientReturned(c) =>
               /\ pc[c] \in {"convert", "done"}
               /\ Len(requests[c]) = idx[c]
               /\ LET parsed == JSONParse(JsonText(responseText[c]))
                  IN  parsed.ok /\ geminiResponse[c] = parsed.value

\* Endpoint 1 failed in transport, endpoint 2 answered the object wrapped in
\* prose; the call is over with that object and two requests sent.
C1_Witness ==
    /\ pc[1] = "done"
    /\ lastError[1] = Err("TypeError", "Failed to fetch", 1)
    /\ responseText[1] = <<Prose, Newline>> \o ObjectText(BaseRaw)
    /\ geminiResponse[1] = Obj(BaseRaw)
    /\ Urls(1) = SubSeq(endpoints, 1, 2)
    /\ outcome[1].status = "returned"

\* C2: when every endpoint has failed, analyzeContract returns a result (the
\* fallback analyzer's) and no error.
C2_FallbackOnExhaustion ==
    \A c \in Calls :
        (pc[c] = "done" /\ Configured /\ ~ClientReturned(c)
            /\ Len(requests[c]) = NumEndpoints)
        => outcome[c].status = "returned"

\* C3: a failed attempt never ends the operation.  While the loop runs the
\* promise is pending, the failure of the attempt just made is what lastError
\* holds, and an error leaves callGeminiAPI only when every endpoint has
\* been requested.
C3_FailureContinues ==
    \A c \in Calls :
        /\ pc[c] \in {"loop", "fetch"} => outcome[c] = Pending
        /\ (pc[c] = "loop" /\ idx[c] > 1) =>
               /\ Len(requests[c]) = idx[c] - 1
               /\ lastError[c].type = "error"
               /\ lastError[c].at = idx[c] - 1
        /\ (pc[c] = "loop" /\ idx[c] <= NumEndpoints) => ENABLED Fetch(c)
        /\ ClientThrew(c) => Len(requests[c]) = NumEndpoints

\* Endpoint 1 failed, endpoint 2 answered text that is no JSON, and the
\* third endpoint has been asked.
C3_Witness ==
    /\ pc[1] = "fetch"
    /\ idx[1] = 3
    /\ Len(requests[1]) = 3
    /\ lastError[1] = Err("SyntaxError", "JSON.parse", 2)

\* C4: when every endpoint has failed, the error callGeminiAPI throws is the
\* one recorded last, that of the final endpoint, and never the generic
\* default.
C4_LastErrorThrown ==
    \A c \in Calls :
        ClientThrew(c) =>
            /\ outcome[c].error = lastError[c]
            /\ outcome[c].error.at = NumEndpoints
            /\ outcome[c].error.msg # "All Gemini API endpoints failed"

\* All three endpoints failed, each in its own way; the last one's envelope
\* had no candidates.
C4_Witness ==
    /\ pc[1] = "done"
    /\ Len(requests[1]) = NumEndpoints
    /\ outcome[1] =
           Threw(Err("Error", "Invalid response format from Gemini API", NumEndpoints))

Called(c) == pc[c] \notin {"idle", "start"}

\* Every request sent carries the text callGeminiAPI was given.
SentText(c, t) ==
    /\ contractText[c] = t
    /\ \A k \in 1..Len(requests[c]) : requests[c][k].contractText = t

\* C6: a text longer than the threshold reaches the remote client as its
\* first maxLength characters followed by the marker, maxLength plus the
\* marker's length characters in all.
C6_LongTextTruncated ==
    \A c \in Calls :
        (Called(c) /\ Len(text[c]) > maxLength) =>
            /\ SentText(c, [i \in 1..(maxLength + Len(Marker)) |->
                               IF i <= maxLength
                               THEN text[c][i]
                               ELSE Marker[i - maxLength]])
            /\ Len(contractText[c]) = maxLength + Len(Marker)

\* A text one character over the threshold, in a request that has been sent.
C6_Witness ==
    /\ Len(text[1]) = maxLength + 1
    /\ Len(requests[1]) >= 1
    /\ Len(requests[1][1].contractText) = maxLength + Len(Marker)

\* C7: a text of at most maxLength characters, the empty text and a text of
\* exactly maxLength characters included, reaches the remote client as it is.
C7_ShortTextVerbatim ==
    \A c \in Calls :
        (Called(c) /\ Len(text[c]) <= maxLength) => SentText(c, text[c])

\* A text of exactly maxLength characters, in a request that has been sent.
C7_Witness ==
    /\ Len(text[1]) = maxLength
    /\ Len(requests[1]) >= 1
    /\ requests[1][1].contractText = text[1]

\* The AnalysisResult analyzeContract returned.
Result(c) == outcome[c].value

ReturnedResult(c) == pc[c] = "done" /\ outcome[c].status = "returned"

\* C8: the result's recommendations are the first min(5, n) of the n raw
\* ones, in their order: never more than 5, never padded.
C8_RecommendationsCapped ==
    \A c \in Calls :
        ReturnedResult(c) =>
            LET rawRecs == Get(geminiResponse[c], "recommendations").val
                recs == Get(Result(c), "recommendations").val
                n == Len(rawRecs)
            IN  /\ Len(recs) = (IF n < 5 THEN n ELSE 5)
                /\ Len(recs) <= 5
                /\ \A i \in 1..Len(recs) : recs[i] = rawRecs[i]

\* Eight raw recommendations, five of them in the result.
C8_Witness ==
    /\ ReturnedResult(1)
    /\ Get(geminiResponse[1], "recommendations") = Arr(Recs(8))
    /\ Get(Result(1), "recommendations") = Arr(Recs(5))

Clamp(n) == IF n < 0 THEN 0 ELSE IF n > 100 THEN 100 ELSE n

\* C9: the result's overallRiskScore is the raw score clamped into 0..100:
\* 150 gives 100, -10 gives 0, a score within the range is unchanged.
C9_ScoreClamped ==
    \A c \in Calls :
        LET rawScore == Get(geminiResponse[c], "overallRiskScore")
        IN  (ReturnedResult(c) /\ rawScore.type = "number") =>
                Get(Result(c), "overallRiskScore") = Num(Clamp(rawScore.val))

\* C10: every flagged clause of the result has a category of the fixed
\* enumeration and a severity of low, medium or high.
C10_EnumsInDomain ==
    \A c \in Calls :
        ReturnedResult(c) =>
            LET flagged == Get(Result(c), "flaggedClauses").val
            IN  \A i \in 1..Len(flagged) :
                    LET clause == Get(flagged[i], "clause")
                    IN  /\ Get(clause, "category") \in {Str(k) : k \in Categories}
                        /\ Get(clause, "severity") \in {Str(v) : v \in Severities}

\* C11: an error that reaches the caller of analyzeContract is AnalysisFailed
\* and nothing else: no error of an endpoint attempt, of the exhausted client
\* or of the conversion.
C11_OnlyAnalysisFailed ==
    \A c \in Calls :
        outcome[c].status = "threw" =>
            /\ outcome[c].error.cls = "AnalysisFailed"
            /\ outcome[c].error.at = 0

\* C12: a result that analyzeContract returns has a summary and an
\* overallRiskScore; a raw response without one of them is rejected.
C12_RequiredFieldsPresent ==
    \A c \in Calls :
        ReturnedResult(c) =>
            /\ ~IsNullish(Get(Result(c), "summary"))
            /\ ~IsNullish(Get(Result(c), "overallRiskScore"))

\* C13: one invocation runs callGeminiAPI once and asks each endpoint at most
\* once, so it never sends more requests than there are endpoints.
C13_BoundedRequests ==
    /\ [](\A c \in Calls :
              /\ Len(requests[c]) <= NumEndpoints
              /\ \A j, k \in 1..Len(requests[c]) :
                     requests[c][j].url = requests[c][k].url => j = k)
    /\ [][\A c \in Calls :
              /\ pc'[c] = "start" => pc[c] = "start"
              /\ pc'[c] = "callGeminiAPI" => pc[c] \in {"start", "callGeminiAPI"}
              /\ Len(requests'[c]) > Len(requests[c]) =>
                     /\ pc[c] = "loop"
                     /\ Len(requests'[c]) = Len(requests[c]) + 1]_vars

\* Every endpoint has failed: three requests were sent and the call is over.
C13_Witness ==
    /\ pc[1] = "done"
    /\ idx[1] = NumEndpoints + 1
    /\ Len(requests[1]) = NumEndpoints
    /\ outcome[1].status = "threw"

\* C14: every request settling, an invocation of analyzeContract ends, with
\* a result or with an error; a failed attempt leaves the next one, or the
\* final throw, ready to run with nothing else needed.
C14_Completes ==
    /\ \A c \in Calls : (pc[c] = "start") ~> (pc[c] = "done")
    /\ [](\A c \in Calls :
              (pc[c] = "loop" /\ idx[c] > 1) => ENABLED (Fetch(c) \/ Exhausted(c)))

\* The three attempts have failed one after the other and the call ended
\* with the error of the last.
C14_Witness ==
    /\ pc[1] = "done"
    /\ Len(requests[1]) = NumEndpoints
    /\ outcome[1] = Threw(Err("SyntaxError", "JSON.parse", NumEndpoints))

\* The locals of invocation c.
Locals(c) ==
    << pc[c], text[c], truncatedText[c], contractText[c], idx[c], lastError[c],
       requests[c], responseText[c], geminiResponse[c], outcome[c] >>

\* C15: two invocations in progress at once, their steps interleaved in any
\* order, do not affect each other.  A step changes the locals of one
\* invocation and nothing else, and what an invocation has requested,
\* recorded and returned is what its own text and its own responses give, as
\* when it runs alone.
C15_Independent ==
    /\ [][/\ GEMINI_API_KEY' = GEMINI_API_KEY
          /\ \E c \in Calls : \A d \in Calls \ {c} : Locals(d)' = Locals(d)]_vars
    /\ [](\A c \in Calls :
              /\ Urls(c) = SubSeq(endpoints, 1, Len(requests[c]))
              /\ \A k \in 1..Len(requests[c]) :
                     requests[c][k].contractText = Truncate(text[c])
              /\ pc[c] = "loop" =>
                     /\ Len(requests[c]) = idx[c] - 1
                     /\ idx[c] > 1 => lastError[c].at = idx[c] - 1
              /\ ClientThrew(c) =>
                     /\ outcome[c].error = lastError[c]
                     /\ lastError[c].at = NumEndpoints
              /\ ClientReturned(c) =>
                     /\ Len(requests[c]) = idx[c]
                     /\ geminiResponse[c] = JSONParse(JsonText(responseText[c])).value
                     /\ pc[c] = "done" => outcome[c] = Convert(geminiResponse[c]))

\* Both invocations wait for a response, the first from endpoint 2 and the
\* second from endpoint 3, each with its own text and its own last error.
C15_Witness ==
    /\ pc[1] = "fetch" /\ pc[2] = "fetch"
    /\ idx[1] = 2 /\ idx[2] = 3
    /\ text[1] # text[2]
    /\ lastError[1] = Err("TypeError", "Failed to fetch", 1)
    /\ lastError[2] = Err("SyntaxError", "JSON.parse", 2)

\* C16: every clause of a result has the empty list as its keywords,
\* whatever the raw clause held, a keywords member of its own included.
C16_KeywordsEmpty ==
    \A c \in Calls :
        ReturnedResult(c) =>
            LET flagged == Get(Result(c), "flaggedClauses").val
            IN  \A i \in 1..Len(flagged) :
                    Get(Get(flagged[i], "clause"), "keywords") = Arr(<< >>)

\* The raw clause came with keywords of its own; the result's clause has none.
C16_Witness ==
    /\ ReturnedResult(1)
    /\ LET rawClause == Get(At(Get(geminiResponse[1], "flaggedClauses"), 0), "clause")
           clause == Get(At(Get(Result(1), "flaggedClauses"), 0), "clause")
       IN  /\ Get(rawClause, "keywords") = Arr(<<Str("deposit")>>)
           /\ Get(clause, "keywords") = Arr(<< >>)
           /\ Get(clause, "name") = Get(rawClause, "name")

\* C17: the matchedText of every flagged clause of a result is at most 300
\* characters long, however long the excerpt of the remote service was.
C17_MatchedTextBounded ==
    \A c \in Calls :
        ReturnedResult(c) =>
            LET flagged == Get(Result(c), "flaggedClauses").val
            IN  \A i \in 1..Len(flagged) :
                    LET matchedText == Get(flagged[i], "matchedText")
                    IN  matchedText.type = "string" =>
                            Len(matchedText.val) <= MaxMatchedText

\* The latest iteration of invocation c got as far as JSON.parse: it has
\* returned, or it has left the SyntaxError of the parse in lastError.
ParsedIn(c) ==
    \/ ClientReturned(c)
    \/ /\ pc[c] = "loop"
       /\ lastError[c] = Err("SyntaxError", "JSON.parse", idx[c] - 1)

ParseFailedIn(c) == ParsedIn(c) /\ ~ClientReturned(c)

\* The positions of a character in a text.
Positions(s, t) == {i \in 1..Len(s) : s[i] = t}

\* The first "{" of a text that has a "}" somewhere after it; 0 if none.
FirstOpen(s) ==
    LET starts == {i \in Positions(s, LBrace) :
                     \E j \in Positions(s, RBrace) : j > i}
    IN  IF starts = {}
        THEN 0
        ELSE CHOOSE a \in starts : \A b \in starts : a <= b

\* The first brace-delimited object of a text: from the first "{" to the
\* "}" that closes it (the braces inside an object are within its member
\* list); the whole text when there is none.
FirstObject(s) ==
    LET i == FirstOpen(s)
    IN  IF i = 0
        THEN s
        ELSE SubSeq(s, i, CHOOSE j \in Positions(s, RBrace) :
                              /\ j > i
                              /\ \A k \in Positions(s, RBrace) : k > i => j <= k)

\* From the first "{" to the last "}" of the text; the whole text when no
\* "{" has a "}" after it.
FirstToLastBrace(s) ==
    LET i == FirstOpen(s)
    IN  IF i = 0
        THEN s
        ELSE SubSeq(s, i, CHOOSE j \in Positions(s, RBrace) :
                              \A k \in Positions(s, RBrace) : k <= j)

\* The outcome of the latest iteration of c is the parse of text.
OutcomeIsParseOf(c, jsonText) ==
    LET expected == JSONParse(jsonText)
    IN  IF ClientReturned(c)
        THEN expected.ok /\ geminiResponse[c] = expected.value
        ELSE ~expected.ok

TrailingBraces == ObjectText(BaseRaw) \o <<Prose, LBrace, RBrace>>

LacksArrays(c) ==
    \/ Get(geminiResponse[c], "flaggedClauses").type # "array"
    \/ Get(geminiResponse[c], "recommendations").type # "array"

AlreadyTruncated(t) ==
    /\ Len(t) = maxLength + Len(Marker)
    /\ SubSeq(t, maxLength + 1, Len(t)) = Marker

\* C20: the truncation is idempotent.  An already truncated text submitted to
\* analyzeContract reaches the remote client unchanged, with no second
\* marker and no character lost, and truncating what analyzeContract passed
\* on gives that same text again.
C20_TruncationIdempotent ==
    \A c \in Calls :
        Called(c) =>
            /\ Truncate(truncatedText[c]) = truncatedText[c]
            /\ AlreadyTruncated(text[c]) =>
                   /\ truncatedText[c] = text[c]
                   /\ SentText(c, text[c])

\* An already truncated text was submitted and sent on as it was.
C20_Witness ==
    /\ AlreadyTruncated(text[1])
    /\ Len(requests[1]) >= 1
    /\ requests[1][1].contractText = text[1]
    /\ Len(text[1]) = maxLength + Len(Marker)

=============================================================================
